---- MODULE Spec2Model ----
(***************************************************************************)
(* The mission simulation engine of the control station: the useSimulation *)
(* hook (orders, aircraft, mission, activeMissionOrderId), its commands    *)
(* and its periodic tick.                                                   *)
(*                                                                         *)
(* Number representation (JavaScript numbers are doubles):                 *)
(*   progress       tenths of a percent          (ProgressScale per 1 %)   *)
(*   routeProgress  ten-thousandths              (RouteScale per 1.0)      *)
(*   battery        hundredths of a percent      (BatteryScale per 1 %)    *)
(*   weights        hundredths of a kilogram     (WeightScale per 1 kg)    *)
(*   distance       metres                       (DistanceScale per 1 km)  *)
(*   eta            hundredths of a second       (EtaScale per 1 s)        *)
(*   coordinates    1e-4 degree (CoordScale); route points carry the extra *)
(*                  factor NumPoints so that i/NumPoints stays exact.      *)
(***************************************************************************)
EXTENDS Integers, Sequences, FiniteSets, TLC

\* ------------------------------------------------------------------ scales
ProgressScale == 10
RouteScale == 10000
BatteryScale == 100
WeightScale == 100
DistanceScale == 1000
EtaScale == 100
CoordScale == 10000

\* ------------------------------------------------------------------ bounds
\* Ticks the model lets the interval fire in one run (battery counts them).
MaxTicks == 4
\* Orders beyond the seeded ones that the collection may hold at a time.
MaxAdded == 1
\* The value at which the elapsed counter of the long runs stops growing.
MaxElapsed == 70
\* Ticks the interval fires in a run of whole missions (battery counts them).
MaxFlightTicks == 68

\* --------------------------------------------------------- program constants
NumPoints == 50
DroneSpeed == 42
DefaultWeight == 2 * WeightScale
CruiseAltitude == 150
ProgressIncrement == 15
ProgressMax == 100 * ProgressScale
ReturnHomeProgress == 95 * ProgressScale
ElapsedIncrement == 1
BatteryDrain == 8
InitialBattery == 87 * BatteryScale
SignalMin == 85
SignalMax == 100
SatellitesMin == 8
SatellitesMax == 14

\* null of `string | null`; no order id of the model is this string.
Null == "<null>"

\* JavaScript truthiness of a `string | null`: null and "" are falsy.
Truthy(id) == id # Null /\ id # ""

\* { ...prev, ...patch }: the object spread of the setState updaters.
Spread(prev, patch) ==
  [k \in DOMAIN prev \cup DOMAIN patch |->
     IF k \in DOMAIN patch THEN patch[k] ELSE prev[k]]

\* The string of a weight field, one character per element.
Chars2_4kg == << "2", ".", "4", " ", "k", "g" >>
Chars1_8kg == << "1", ".", "8", " ", "k", "g" >>
Chars3_1kg == << "3", ".", "1", " ", "k", "g" >>
Chars0_5kg == << "0", ".", "5", " ", "k", "g" >>
Chars1_2kg == << "1", ".", "2", " ", "k", "g" >>
Chars4_0kg == << "4", ".", "0", " ", "k", "g" >>
Chars0kg == << "0", " ", "k", "g" >>
CharsHeavy == << "h", "e", "a", "v", "y" >>
Chars7_5kg == << "7", ".", "5", " ", "k", "g" >>

initialAircraft ==
  [ battery |-> InitialBattery,
    payloadWeight |-> 0,
    maxPayload |-> 5 * WeightScale,
    status |-> "Idle",
    signal |-> 98,
    satellites |-> 12,
    cameraActive |-> TRUE,
    mode |-> "Semi-Auto" ]

initialMission ==
  [ progress |-> 0,
    elapsed |-> 0,
    eta |-> 0,
    distance |-> 0,
    altitude |-> CruiseAltitude,
    speed |-> 0,
    routeProgress |-> 0,
    route |-> << >> ]

\* The named-location table, in CoordScale units.
locationCoordinates ==
  [ name \in { "Warehouse A", "Hospital B", "Depot C", "Office Park D",
               "Kitchen Hub", "Residential Zone E", "HQ Tower",
               "Branch Office F", "Lab Center G", "Research Facility H",
               "Factory I", "Maintenance Bay J" } |->
      CASE name = "Warehouse A" -> [lat |-> 130827, lng |-> 802707]
        [] name = "Hospital B" -> [lat |-> 130604, lng |-> 802496]
        [] name = "Depot C" -> [lat |-> 130878, lng |-> 802785]
        [] name = "Office Park D" -> [lat |-> 130569, lng |-> 802425]
        [] name = "Kitchen Hub" -> [lat |-> 130475, lng |-> 802090]
        [] name = "Residential Zone E" -> [lat |-> 131067, lng |-> 802206]
        [] name = "HQ Tower" -> [lat |-> 130843, lng |-> 802705]
        [] name = "Branch Office F" -> [lat |-> 130108, lng |-> 802270]
        [] name = "Lab Center G" -> [lat |-> 130127, lng |-> 802351]
        [] name = "Research Facility H" -> [lat |-> 130674, lng |-> 802376]
        [] name = "Factory I" -> [lat |-> 131143, lng |-> 801548]
        [] name = "Maintenance Bay J" -> [lat |-> 130358, lng |-> 801790] ]

\* locationCoordinates[name] is undefined (falsy) for a name not in the table.
Resolvable(name) == name \in DOMAIN locationCoordinates

initialOrders ==
  << [ id |-> "ORD-4821", packageType |-> "Medical Supplies", weight |-> Chars2_4kg,
       pickup |-> "Warehouse A", delivery |-> "Hospital B", status |-> "Pending" ],
     [ id |-> "ORD-4822", packageType |-> "Electronics", weight |-> Chars1_8kg,
       pickup |-> "Depot C", delivery |-> "Office Park D", status |-> "Pending" ],
     [ id |-> "ORD-4823", packageType |-> "Food Package", weight |-> Chars3_1kg,
       pickup |-> "Kitchen Hub", delivery |-> "Residential Zone E", status |-> "Pending" ],
     [ id |-> "ORD-4824", packageType |-> "Documents", weight |-> Chars0_5kg,
       pickup |-> "HQ Tower", delivery |-> "Branch Office F", status |-> "Pending" ],
     [ id |-> "ORD-4825", packageType |-> "Lab Samples", weight |-> Chars1_2kg,
       pickup |-> "Lab Center G", delivery |-> "Research Facility H", status |-> "Pending" ],
     [ id |-> "ORD-4826", packageType |-> "Spare Parts", weight |-> Chars4_0kg,
       pickup |-> "Factory I", delivery |-> "Maintenance Bay J", status |-> "Pending" ] >>

\* ------------------------------------------------------------- pure helpers

\* prev.map((o) => (o.id === orderId ? { ...o, status } : o))
WithStatus(prev, orderId, status) ==
  [i \in DOMAIN prev |->
     IF prev[i].id = orderId THEN Spread(prev[i], [status |-> status]) ELSE prev[i]]

\* Array.prototype.find by id: whether it finds an element (else undefined) ...
Has(s, orderId) == \E i \in DOMAIN s : s[i].id = orderId

\* ... and the element it finds, the first with that id.
Find(s, orderId) ==
  s[CHOOSE i \in DOMAIN s :
       /\ s[i].id = orderId
       /\ \A j \in DOMAIN s : s[j].id = orderId => i <= j]

\* generateAerialRoute: NumPoints + 1 points [lng, lat], point i (0-based) at
\* from + (to - from) * i / NumPoints, here multiplied through by NumPoints.
\* Mutant: a loop that stops one point short of the destination.
generateAerialRoute_Short(from, to) ==
  [k \in 1..NumPoints |->
     << from.lng * NumPoints + (to.lng - from.lng) * (k - 1),
        from.lat * NumPoints + (to.lat - from.lat) * (k - 1) >>]

generateAerialRoute(from, to) ==
  [k \in 1..(NumPoints + 1) |->
     << from.lng * NumPoints + (to.lng - from.lng) * (k - 1),
        from.lat * NumPoints + (to.lat - from.lat) * (k - 1) >>]

\* haversineDistance in metres (rounded), tabulated from the source's formula
\* with R = 6371 for the coordinate pairs the modelled orders use.
haversineDistance(from, to) ==
  LET L == locationCoordinates
      Pair(a, b) == (from = L[a] /\ to = L[b]) \/ (from = L[b] /\ to = L[a])
  IN CASE from = to -> 0
       [] Pair("Warehouse A", "Hospital B") -> 3372
       [] Pair("Depot C", "Office Park D") -> 5197
       [] Pair("Kitchen Hub", "Residential Zone E") -> 6702
       [] Pair("HQ Tower", "Branch Office F") -> 9434
       [] Pair("Lab Center G", "Research Facility H") -> 6088
       [] Pair("Factory I", "Maintenance Bay J") -> 9114

\* Math.round of the non-negative rational n / d.
RoundDiv(n, d) == (2 * n + d) \div (2 * d)

\* Math.round((distance / droneSpeed) * 3600), in seconds.
TotalEtaSeconds(distance) == RoundDiv(distance * 3600, DroneSpeed * DistanceScale)

\* Math.round(150 + Math.sin(newElapsed * 0.3) * 8) for newElapsed = 1, 2, ...,
\* tabulated from the source's formula.
AltitudeTable ==
  << 152, 155, 156, 157, 158, 158, 157, 155, 153, 151, 149, 146, 144, 143, 142, 142,
     143, 144, 146, 148, 150, 152, 155, 156, 158, 158, 158, 157, 155, 153, 151, 149,
     146, 144, 143, 142, 142, 143, 144, 146, 148, 150, 153, 155, 156, 158, 158, 158,
     157, 155, 153, 151, 148, 146, 144, 143, 142, 142, 143, 144, 146, 148, 150, 153,
     155, 157, 158, 158, 158, 157, 155, 153, 151, 148, 146, 144, 143, 142, 142, 143,
     144, 146, 148, 151, 153, 155, 157, 158, 158, 158, 157, 155, 153, 151, 148, 146,
     144, 143, 142, 142, 143, 144, 146, 148, 151, 153, 155, 157, 158, 158, 158, 157,
     155, 153, 150, 148, 146, 144, 143, 142, 142, 143, 144, 146, 148, 151, 153, 155,
     157, 158, 158, 158, 156, 155, 153, 150, 148, 146, 144, 143, 142, 142, 143, 144,
     146, 149, 151, 153, 155, 157, 158, 158, 158, 156, 155, 153, 150, 148, 146, 144 >>

AltitudeVariation(newElapsed) == AltitudeTable[newElapsed]

\* ----------------------------------------------------------------- parseFloat
IsDigit(c) == c \in { "0", "1", "2", "3", "4", "5", "6", "7", "8", "9" }

DigitVal(c) ==
  CASE c = "0" -> 0 [] c = "1" -> 1 [] c = "2" -> 2 [] c = "3" -> 3 [] c = "4" -> 4
    [] c = "5" -> 5 [] c = "6" -> 6 [] c = "7" -> 7 [] c = "8" -> 8 [] c = "9" -> 9

\* Index of the first character at or after i that is not white space.
RECURSIVE SkipSpace(_, _)
SkipSpace(s, i) ==
  IF i <= Len(s) /\ s[i] = " " THEN SkipSpace(s, i + 1) ELSE i

\* Index just past the run of decimal digits that starts at i.
RECURSIVE DigitRun(_, _)
DigitRun(s, i) ==
  IF i <= Len(s) /\ IsDigit(s[i]) THEN DigitRun(s, i + 1) ELSE i

\* The decimal value of the digits s[i .. j-1].
RECURSIVE DigitsValue(_, _, _)
DigitsValue(s, i, j) ==
  IF i >= j THEN 0 ELSE DigitsValue(s, i, j - 1) * 10 + DigitVal(s[j - 1])

\* parseFloat(string): leading white space, an optional sign, digits with an
\* optional fraction; whatever follows is ignored; NaN when no digit was read.
\* The value is in WeightScale units (fraction digits past the second are cut;
\* exponents and "Infinity" do not occur in the modelled strings).
parseFloat(s) ==
  LET a == SkipSpace(s, 1)
      signed == a <= Len(s) /\ s[a] \in { "+", "-" }
      negative == signed /\ s[a] = "-"
      b == IF signed THEN a + 1 ELSE a
      c == DigitRun(s, b)
      dotted == c <= Len(s) /\ s[c] = "."
      f == IF dotted THEN c + 1 ELSE c
      g == IF dotted THEN DigitRun(s, f) ELSE c
      tenths == IF f < g THEN DigitVal(s[f]) ELSE 0
      hundredths == IF f + 1 < g THEN DigitVal(s[f + 1]) ELSE 0
      magnitude == DigitsValue(s, b, c) * WeightScale + tenths * 10 + hundredths
  IN IF c = b /\ g = f
     THEN [nan |-> TRUE, value |-> 0]
     ELSE [nan |-> FALSE, value |-> IF negative THEN 0 - magnitude ELSE magnitude]

\* parseFloat(order.weight) || 2.0: NaN and 0 are falsy.
ParsedWeight(weightField) ==
  LET r == parseFloat(weightField)
  IN IF r.nan \/ r.value = 0 THEN DefaultWeight ELSE r.value

\* ---------------------------------------------------------------- the inputs
\* Order ids the commands are called with: a seeded order, the id addOrder
\* brings in, and one id no order ever has.
CommandIds == { "ORD-4821", "ORD-9001", "ORD-0000" }

\* Orders a caller hands to addOrder: a zero weight, an unparsable weight, and a
\* pickup name missing from the table.
NewOrders ==
  { [ id |-> "ORD-9001", packageType |-> "Samples", weight |-> Chars0kg,
      pickup |-> "Warehouse A", delivery |-> "Hospital B", status |-> "Pending" ],
    [ id |-> "ORD-9001", packageType |-> "Crate", weight |-> CharsHeavy,
      pickup |-> "Depot C", delivery |-> "Office Park D", status |-> "Pending" ],
    [ id |-> "ORD-9001", packageType |-> "Parcel", weight |-> Chars1_2kg,
      pickup |-> "Unknown Site", delivery |-> "Hospital B", status |-> "Pending" ] }

\* Math.round(40 + Math.random() * 6) lies in 40..46: the two ends.
SpeedVariations == { 40, 46 }

\* The one order and the one speed draw (40 + Math.random() * 6 = 42) of the
\* long runs.
LiveIds == { "ORD-4821" }
LiveSpeeds == { DroneSpeed }

\* Orders a caller hands to addOrder with no look at the collection or at the
\* aircraft: one under an id the collection already holds, one heavier than
\* the aircraft's maxPayload.
IntakeOrders ==
  { [ id |-> "ORD-4821", packageType |-> "Medical Supplies", weight |-> Chars2_4kg,
      pickup |-> "Warehouse A", delivery |-> "Hospital B", status |-> "Pending" ],
    [ id |-> "ORD-9002", packageType |-> "Generator", weight |-> Chars7_5kg,
      pickup |-> "Depot C", delivery |-> "Office Park D", status |-> "Pending" ] }

IntakeIds == { "ORD-4821", "ORD-9002" }

\* Seeded orders over three route lengths (3372 m, 5197 m, 9434 m).
FlightIds == { "ORD-4821", "ORD-4822", "ORD-4824" }
\* (Math.random() - 0.5) * 2 lies in [-1, 1): a whole step down.
SignalJitters == { -1 }
\* Math.round((Math.random() - 0.5) * 1): Math.round of a number in [-0.5, 0.5)
\* is 0 (or -0).
SatelliteSteps == { 0 }

\* -------------------------------------------------------------------- state
VARIABLES
  orders,                 \* useState<Order[]>
  aircraft,               \* useState<AircraftState>
  mission,                \* useState<MissionState>
  activeMissionOrderId,   \* useState<string | null>
  intervalRef,            \* the id the live interval's callback closed over, or Null
  rendered                \* what the callbacks of the last render closed over

vars == << orders, aircraft, mission, activeMissionOrderId, intervalRef, rendered >>

engine == << orders, aircraft, mission, activeMissionOrderId >>

Init ==
  /\ orders = initialOrders
  /\ aircraft = initialAircraft
  /\ mission = initialMission
  /\ activeMissionOrderId = Null
  /\ intervalRef = Null
  /\ rendered = [orders |-> initialOrders, activeMissionOrderId |-> Null]

\* Mutant: an effect whose cleanup never clears the interval.
TickEffect_NeverCleared(act, ref) ==
  IF Truthy(act) THEN act ELSE ref

\* The useEffect keyed on activeMissionOrderId, run by the render that follows a
\* state change: when the id changed, the old interval is cleared and a new one
\* is set only for a truthy id; `ref` is the interval the handler left behind.
TickEffect(act, ref) ==
  IF act = rendered.activeMissionOrderId THEN ref
  ELSE IF Truthy(act) THEN act ELSE Null

\* The queued state updates are applied and the component renders again: every
\* command below is one event handled to completion, its callbacks those of the
\* latest render.
Commit(o, a, m, act, ref) ==
  /\ orders' = o
  /\ aircraft' = a
  /\ mission' = m
  /\ activeMissionOrderId' = act
  /\ intervalRef' = TickEffect(act, ref)
  /\ rendered' = [orders |-> o, activeMissionOrderId |-> act]

\* ----------------------------------------------------------------- commands
\* Mutant: an approval that marks every order.
ApprovedOrders_All(prev, orderId) ==
  [i \in DOMAIN prev |-> Spread(prev[i], [status |-> "Approved"])]

ApprovedOrders(prev, orderId) == WithStatus(prev, orderId, "Approved")

approveOrder(orderId) ==
  LET next == ApprovedOrders(orders, orderId)
  IN Commit(next, aircraft, mission, activeMissionOrderId, intervalRef)

\* Mutant: the filter's test inverted, keeping only the rejected order.
RemainingOrders_Inverted(prev, orderId) ==
  LET Keep(o) == o.id = orderId
  IN SelectSeq(prev, Keep)

\* prev.filter((o) => o.id !== orderId)
RemainingOrders(prev, orderId) ==
  LET Keep(o) == o.id # orderId
  IN SelectSeq(prev, Keep)

rejectOrder(orderId) ==
  LET next == RemainingOrders(orders, orderId)
  IN Commit(next, aircraft, mission, activeMissionOrderId, intervalRef)

SeedIds == { initialOrders[i].id : i \in DOMAIN initialOrders }

Added(s) == { i \in DOMAIN s : s[i].id \notin SeedIds }

addOrder(order) ==
  /\ Cardinality(Added(orders)) < MaxAdded
  /\ Commit(Append(orders, order), aircraft, mission,
            activeMissionOrderId, intervalRef)

\* Mutant: startMission without its "already flying" return.
StartRefused_IgnoresActive(orderId) ==
  LET order == Find(rendered.orders, orderId)
  IN \/ ~Has(rendered.orders, orderId)
     \/ order.status # "Approved"
     \/ ~Resolvable(order.pickup)
     \/ ~Resolvable(order.delivery)

\* The early returns of startMission, on the values its closure holds.
StartRefused(orderId) ==
  LET order == Find(rendered.orders, orderId)
  IN \/ ~Has(rendered.orders, orderId)
     \/ order.status # "Approved"
     \/ Truthy(rendered.activeMissionOrderId)
     \/ ~Resolvable(order.pickup)
     \/ ~Resolvable(order.delivery)

InFlightOrders(prev, orderId) == WithStatus(prev, orderId, "In Flight")

StartedAircraft(prev, weight) ==
  Spread(prev, [status |-> "In Flight", payloadWeight |-> weight, speed |-> DroneSpeed])

StartedMission(pickupCoord, deliveryCoord) ==
  LET distance == haversineDistance(pickupCoord, deliveryCoord)
  IN [ progress |-> 0,
       elapsed |-> 0,
       eta |-> TotalEtaSeconds(distance) * EtaScale,
       distance |-> distance,
       altitude |-> CruiseAltitude,
       speed |-> DroneSpeed,
       routeProgress |-> 0,
       route |-> generateAerialRoute(pickupCoord, deliveryCoord) ]

startMission(orderId) ==
  IF StartRefused(orderId)
  THEN Commit(orders, aircraft, mission, activeMissionOrderId, intervalRef)
  ELSE LET order == Find(rendered.orders, orderId)
       IN Commit(InFlightOrders(orders, orderId),
                 StartedAircraft(aircraft, ParsedWeight(order.weight)),
                 StartedMission(locationCoordinates[order.pickup],
                                locationCoordinates[order.delivery]),
                 orderId, intervalRef)

PendingOrders(prev, orderId) == WithStatus(prev, orderId, "Pending")

\* Mutant: emergencyStop that leaves the payload on board.
StoppedAircraft_KeepsPayload(prev) == Spread(prev, [status |-> "Idle"])

StoppedAircraft(prev) == Spread(prev, [status |-> "Idle", payloadWeight |-> 0])

\* Mutant: emergencyStop that leaves the mission record as it is.
emergencyStop_KeepsMission ==
  IF ~Truthy(rendered.activeMissionOrderId)
  THEN Commit(orders, aircraft, mission, activeMissionOrderId, intervalRef)
  ELSE Commit(PendingOrders(orders, rendered.activeMissionOrderId),
              StoppedAircraft(aircraft), mission, Null, Null)

emergencyStop ==
  IF ~Truthy(rendered.activeMissionOrderId)
  THEN Commit(orders, aircraft, mission, activeMissionOrderId, intervalRef)
  ELSE Commit(PendingOrders(orders, rendered.activeMissionOrderId),
              StoppedAircraft(aircraft), initialMission, Null, Null)

\* Mutant: returnHome that completes the progress itself.
HomeboundMission_Completes(prev) == Spread(prev, [progress |-> ProgressMax])

HomeboundMission(prev) == Spread(prev, [progress |-> ReturnHomeProgress])

\* Mutant: a returnHome without its guard.
returnHome_Unguarded ==
  Commit(orders, aircraft, HomeboundMission(mission), activeMissionOrderId, intervalRef)

returnHome ==
  IF ~Truthy(rendered.activeMissionOrderId)
  THEN Commit(orders, aircraft, mission, activeMissionOrderId, intervalRef)
  ELSE Commit(orders, aircraft, HomeboundMission(mission),
              activeMissionOrderId, intervalRef)

\* Mutant: a toggle that spreads the initial aircraft instead of the current one.
ToggledAircraft_Reset(prev) ==
  Spread(initialAircraft, [cameraActive |-> ~prev.cameraActive])

ToggledAircraft(prev) == Spread(prev, [cameraActive |-> ~prev.cameraActive])

toggleCamera ==
  LET next == ToggledAircraft(aircraft)
  IN Commit(orders, next, mission, activeMissionOrderId, intervalRef)

\* --------------------------------------------------------------------- tick
\* Mutant: a tick that jumps to the end of the route.
NewProgress_Jump(prev) == ProgressMax

\* Mutant: a tick that advances by twice the increment.
NewProgress_Fast(prev) ==
  IF prev.progress + 2 * ProgressIncrement < ProgressMax
  THEN prev.progress + 2 * ProgressIncrement
  ELSE ProgressMax

NewProgress(prev) ==
  IF prev.progress + ProgressIncrement < ProgressMax
  THEN prev.progress + ProgressIncrement
  ELSE ProgressMax

\* newProgress / 100, in RouteScale units.
NewRouteProgress(newProgress) == (newProgress * RouteScale) \div (100 * ProgressScale)

\* Math.max(0, totalTime * remainingFraction) with
\* totalTime = prev.distance / (prev.speed / 3600), in EtaScale units.
NewEta(prev, newRouteProgress) ==
  LET totalTime == (prev.distance * ((3600 * EtaScale) \div DistanceScale)) \div prev.speed
      eta == (totalTime * (RouteScale - newRouteProgress)) \div RouteScale
  IN IF eta > 0 THEN eta ELSE 0

TickCompletes(prev) == NewProgress(prev) >= ProgressMax

CompletedMission(prev) ==
  Spread(prev, [progress |-> ProgressMax, routeProgress |-> RouteScale,
                eta |-> 0, speed |-> 0])

\* Mutant: a tick that advances progress and leaves routeProgress behind.
AdvancedMission_StaleRoute(prev, speedVariation) ==
  LET newProgress == NewProgress(prev)
      newElapsed == prev.elapsed + ElapsedIncrement
  IN Spread(prev, [progress |-> newProgress,
                   elapsed |-> newElapsed,
                   eta |-> NewEta(prev, NewRouteProgress(newProgress)),
                   altitude |-> AltitudeVariation(newElapsed),
                   speed |-> speedVariation])

AdvancedMission(prev, speedVariation) ==
  LET newProgress == NewProgress(prev)
      newElapsed == prev.elapsed + ElapsedIncrement
  IN Spread(prev, [progress |-> newProgress,
                   routeProgress |-> NewRouteProgress(newProgress),
                   elapsed |-> newElapsed,
                   eta |-> NewEta(prev, NewRouteProgress(newProgress)),
                   altitude |-> AltitudeVariation(newElapsed),
                   speed |-> speedVariation])

\* Mutant: a completion that forgets the order.
DeliveredOrders_Forgotten(prev, orderId) == prev

DeliveredOrders(prev, orderId) == WithStatus(prev, orderId, "Delivered")

\* Mutant: a landing that leaves the aircraft in the Landing status.
LandedAircraft_Landing(prev) ==
  Spread(prev, [status |-> "Landing", payloadWeight |-> 0, speed |-> 0])

\* Mutant: a landing that keeps the payload on board.
LandedAircraft_Loaded(prev) == Spread(prev, [status |-> "Idle", speed |-> 0])

LandedAircraft(prev) == Spread(prev, [status |-> "Idle", payloadWeight |-> 0, speed |-> 0])

Clamp(lo, x, hi) == IF x < lo THEN lo ELSE IF x > hi THEN hi ELSE x

\* Mutant: a drain that grounds the aircraft when the battery is empty.
DrainedAircraft_Grounds(prev, signalJitter, satelliteStep) ==
  Spread(prev,
    [battery |-> IF prev.battery - BatteryDrain > 0 THEN prev.battery - BatteryDrain ELSE 0,
     status |-> IF prev.battery - BatteryDrain > 0 THEN prev.status ELSE "Charging",
     signal |-> Clamp(SignalMin, prev.signal + signalJitter, SignalMax),
     satellites |-> Clamp(SatellitesMin, prev.satellites + satelliteStep, SatellitesMax)])

\* Mutant: a drain without the floor at 0.
DrainedAircraft_NoFloor(prev, signalJitter, satelliteStep) ==
  Spread(prev,
    [battery |-> prev.battery - BatteryDrain,
     signal |-> Clamp(SignalMin, prev.signal + signalJitter, SignalMax),
     satellites |-> Clamp(SatellitesMin, prev.satellites + satelliteStep, SatellitesMax)])

DrainedAircraft(prev, signalJitter, satelliteStep) ==
  Spread(prev,
    [battery |-> IF prev.battery - BatteryDrain > 0 THEN prev.battery - BatteryDrain ELSE 0,
     signal |-> Clamp(SignalMin, prev.signal + signalJitter, SignalMax),
     satellites |-> Clamp(SatellitesMin, prev.satellites + satelliteStep, SatellitesMax)])

\* One firing of the interval callback, and the render that follows it.
Tick(speedVariation, signalJitter, satelliteStep) ==
  /\ intervalRef # Null
  /\ aircraft.battery > InitialBattery - MaxTicks * BatteryDrain
  /\ IF TickCompletes(mission)
     THEN Commit(DeliveredOrders(orders, intervalRef),
                 DrainedAircraft(LandedAircraft(aircraft), signalJitter, satelliteStep),
                 CompletedMission(mission), Null, intervalRef)
     ELSE Commit(orders,
                 DrainedAircraft(aircraft, signalJitter, satelliteStep),
                 AdvancedMission(mission, speedVariation),
                 activeMissionOrderId, intervalRef)

\* A step of the interval callback.
TickStep ==
  \E speedVariation \in SpeedVariations, signalJitter \in SignalJitters,
     satelliteStep \in SatelliteSteps :
       Tick(speedVariation, signalJitter, satelliteStep)

Next ==
  \/ \E orderId \in CommandIds : approveOrder(orderId)
  \/ \E orderId \in CommandIds : rejectOrder(orderId)
  \/ \E order \in NewOrders : addOrder(order)
  \/ \E orderId \in CommandIds : startMission(orderId)
  \/ emergencyStop
  \/ returnHome
  \/ toggleCamera
  \/ \E speedVariation \in SpeedVariations, signalJitter \in SignalJitters,
        satelliteStep \in SatelliteSteps :
       Tick(speedVariation, signalJitter, satelliteStep)

Spec == Init /\ [][Next]_vars

\* ------------------------------------------------- the interval, unbudgeted
\* elapsed is a double: prev.elapsed + 1 stops growing when it reaches the
\* largest value the addition can still change (2^53); MaxElapsed stands for it.
SaturatedElapsed(m) ==
  IF m.elapsed > MaxElapsed
  THEN Spread(m, [elapsed |-> MaxElapsed, altitude |-> AltitudeVariation(MaxElapsed)])
  ELSE m

\* The interval callback as the browser runs it: every 600 ms for as long as
\* the interval is set, with no budget of ticks.
LiveTick(speedVariation, signalJitter, satelliteStep) ==
  /\ intervalRef # Null
  /\ IF TickCompletes(mission)
     THEN Commit(DeliveredOrders(orders, intervalRef),
                 DrainedAircraft(LandedAircraft(aircraft), signalJitter, satelliteStep),
                 CompletedMission(mission), Null, intervalRef)
     ELSE Commit(orders,
                 DrainedAircraft(aircraft, signalJitter, satelliteStep),
                 SaturatedElapsed(AdvancedMission(mission, speedVariation)),
                 activeMissionOrderId, intervalRef)

LiveTickStep ==
  \E speedVariation \in LiveSpeeds, signalJitter \in SignalJitters,
     satelliteStep \in SatelliteSteps :
       LiveTick(speedVariation, signalJitter, satelliteStep)

\* The long run from construction: one order approved, flown, stopped and flown
\* again while the battery drains to its floor.
DrainNext ==
  \/ \E orderId \in LiveIds : approveOrder(orderId)
  \/ \E orderId \in LiveIds : startMission(orderId)
  \/ emergencyStop
  \/ LiveTickStep

SpecDrain == Init /\ [][DrainNext]_vars

\* A state SpecDrain reaches after 1087 ticks and an emergencyStop: every order
\* Pending, the mission empty, the battery one tick above its floor, the signal
\* at its lower clamp, and the speed field startMission spread into the aircraft.
DrainedAircraftState ==
  Spread(initialAircraft, [battery |-> InitialBattery % BatteryDrain,
                           signal |-> SignalMin,
                           speed |-> DroneSpeed])

InitDrained ==
  /\ orders = initialOrders
  /\ aircraft = DrainedAircraftState
  /\ mission = initialMission
  /\ activeMissionOrderId = Null
  /\ intervalRef = Null
  /\ rendered = [orders |-> initialOrders, activeMissionOrderId |-> Null]

\* A mission that is neither stopped nor rejected: the commands that may be
\* interleaved with its ticks.
LiveNext ==
  \/ \E orderId \in LiveIds : approveOrder(orderId)
  \/ \E orderId \in LiveIds : startMission(orderId)
  \/ returnHome
  \/ LiveTickStep

\* setInterval keeps firing the callback while the interval is set.
SpecLive == InitDrained /\ [][LiveNext]_vars /\ WF_vars(LiveTickStep)

\* ------------------------------------------------ calls within one event
\* The ids a caller starts in one event.
BatchIds == { "ORD-4821", "ORD-4822", "ORD-4823" }

\* The state updates of a handler whose caller goes on before the component
\* has rendered again: the updates are applied in call order, the callbacks
\* still close over the orders and the id of the last render, and the effect
\* has not run.
Queue(o, a, m, act, ref) ==
  /\ orders' = o
  /\ aircraft' = a
  /\ mission' = m
  /\ activeMissionOrderId' = act
  /\ intervalRef' = ref
  /\ rendered' = rendered

\* startMission called with further calls to follow in the same event.
startMissionQueued(orderId) ==
  IF StartRefused(orderId)
  THEN Queue(orders, aircraft, mission, activeMissionOrderId, intervalRef)
  ELSE LET order == Find(rendered.orders, orderId)
       IN Queue(InFlightOrders(orders, orderId),
                StartedAircraft(aircraft, ParsedWeight(order.weight)),
                StartedMission(locationCoordinates[order.pickup],
                               locationCoordinates[order.delivery]),
                orderId, intervalRef)

\* The render that ends an event whose updates are still unseen.
Render ==
  /\ rendered # [orders |-> orders, activeMissionOrderId |-> activeMissionOrderId]
  /\ Commit(orders, aircraft, mission, activeMissionOrderId, intervalRef)

\* Commands of which a caller may issue several before the next render; the last
\* call of an event is followed by the render.
BatchNext ==
  \/ \E orderId \in BatchIds : approveOrder(orderId)
  \/ \E orderId \in BatchIds : startMission(orderId)
  \/ \E orderId \in BatchIds : startMissionQueued(orderId)
  \/ emergencyStop
  \/ Render

SpecBatched == Init /\ [][BatchNext]_vars

\* ------------------------------------------------------- orders taken in
\* addOrder for any caller-supplied order, the collection held to MaxAdded
\* orders beyond the seeded number.
intakeOrder(order) ==
  /\ Len(orders) < Len(initialOrders) + MaxAdded
  /\ Commit(Append(orders, order), aircraft, mission, activeMissionOrderId, intervalRef)

IntakeNext ==
  \/ \E order \in IntakeOrders : intakeOrder(order)
  \/ \E orderId \in IntakeIds : approveOrder(orderId)
  \/ \E orderId \in IntakeIds : rejectOrder(orderId)
  \/ \E orderId \in IntakeIds : startMission(orderId)
  \/ emergencyStop
  \/ returnHome
  \/ TickStep

SpecIntake == Init /\ [][IntakeNext]_vars

\* ---------------------------------------------------------- whole missions
\* The interval callback, for MaxFlightTicks firings.
FlightTickStep ==
  /\ aircraft.battery > InitialBattery - MaxFlightTicks * BatteryDrain
  /\ \E speedVariation \in SpeedVariations, signalJitter \in SignalJitters,
        satelliteStep \in SatelliteSteps :
          LiveTick(speedVariation, signalJitter, satelliteStep)

\* Missions that are started and then only tick.
FlightNext ==
  \/ \E orderId \in FlightIds : approveOrder(orderId)
  \/ \E orderId \in FlightIds : startMission(orderId)
  \/ FlightTickStep

SpecFlight == Init /\ [][FlightNext]_vars

\* ------------------------------------------------------- claims: vocabulary
\* routeProgress = progress / 100, across the two scales.
RouteMirrorsProgress(m) ==
  m.routeProgress * 100 * ProgressScale = m.progress * RouteScale

\* Every order of `before` with that id has status `status` in `after`, and
\* every other order is as it was.
OnlyStatusOf(before, after, orderId, status) ==
  /\ Len(after) = Len(before)
  /\ \A i \in DOMAIN before :
       IF before[i].id = orderId
       THEN after[i] = Spread(before[i], [status |-> status])
       ELSE after[i] = before[i]

\* The weight the order's field parses to, the default when it does not parse.
WeightOf(order) ==
  IF parseFloat(order.weight).nan THEN DefaultWeight ELSE parseFloat(order.weight).value

\* C1: startMission(orderId) changes nothing of orders, aircraft, mission and
\* activeMissionOrderId when no order has that id, when the order is not
\* Approved, when a mission is active, or when the order's pickup or delivery
\* name is not in the named-location table.
C1_StartMissionRefusedIsNoOp ==
  [][\A orderId \in CommandIds :
       ( /\ startMission(orderId)
         /\ \/ ~Has(orders, orderId)
            \/ Find(orders, orderId).status # "Approved"
            \/ activeMissionOrderId # Null
            \/ Find(orders, orderId).pickup \notin DOMAIN locationCoordinates
            \/ Find(orders, orderId).delivery \notin DOMAIN locationCoordinates )
       => UNCHANGED engine]_vars

\* A mission is active while another order is Approved, and an Approved order
\* names a pickup the table lacks: startMission is refused for either.
C1_Witness ==
  /\ activeMissionOrderId # Null
  /\ \E i \in DOMAIN orders :
       /\ orders[i].status = "Approved"
       /\ orders[i].id # activeMissionOrderId
       /\ ~Resolvable(orders[i].pickup)

\* C2: a startMission(orderId) for an existing Approved order with resolvable
\* names and no mission active leaves activeMissionOrderId = orderId, the order
\* In Flight, the aircraft In Flight carrying the order's parsed weight, and the
\* mission at progress 0, elapsed 0, routeProgress 0, altitude 150, cruise speed,
\* eta the computed total time and route the generated route.
C2_StartMissionEffect ==
  [][\A orderId \in CommandIds :
       ( /\ startMission(orderId)
         /\ Has(orders, orderId)
         /\ Find(orders, orderId).status = "Approved"
         /\ activeMissionOrderId = Null
         /\ Find(orders, orderId).pickup \in DOMAIN locationCoordinates
         /\ Find(orders, orderId).delivery \in DOMAIN locationCoordinates )
       => LET order == Find(orders, orderId)
              from == locationCoordinates[order.pickup]
              to == locationCoordinates[order.delivery]
          IN /\ activeMissionOrderId' = orderId
             /\ Find(orders', orderId).status = "In Flight"
             /\ aircraft'.status = "In Flight"
             /\ aircraft'.payloadWeight = WeightOf(order)
             /\ mission'.progress = 0
             /\ mission'.elapsed = 0
             /\ mission'.routeProgress = 0
             /\ mission'.altitude = 150
             /\ mission'.speed = DroneSpeed
             /\ mission'.eta = TotalEtaSeconds(haversineDistance(from, to)) * EtaScale
             /\ mission'.route = generateAerialRoute(from, to)]_vars

\* C3: the tick that brings progress to 100 also marks the active order
\* Delivered, sets the aircraft Idle with payload 0, the mission speed 0, eta 0
\* and routeProgress 1, and clears activeMissionOrderId; so progress is never
\* 100 while activeMissionOrderId is set.
C3_CompletionTickIsAtomic ==
  /\ [](mission.progress = ProgressMax => activeMissionOrderId = Null)
  /\ [][(TickStep /\ mission'.progress = ProgressMax)
         => /\ OnlyStatusOf(orders, orders', activeMissionOrderId, "Delivered")
            /\ aircraft'.status = "Idle"
            /\ aircraft'.payloadWeight = 0
            /\ mission'.speed = 0
            /\ mission'.eta = 0
            /\ mission'.routeProgress = RouteScale
            /\ activeMissionOrderId' = Null]_vars

\* A mission ran to completion: progress 100 and its order Delivered.
C3_Witness ==
  /\ mission.progress = ProgressMax
  /\ activeMissionOrderId = Null
  /\ aircraft.status = "Idle"
  /\ \E i \in DOMAIN orders : orders[i].status = "Delivered"

\* C4: emergencyStop during a mission sets the active order Pending, resets the
\* mission to its empty default, clears activeMissionOrderId, and sets the
\* aircraft Idle with payload 0, every other aircraft field as it was.
C4_EmergencyStopEffect ==
  [][(emergencyStop /\ activeMissionOrderId # Null)
      => /\ OnlyStatusOf(orders, orders', activeMissionOrderId, "Pending")
         /\ mission' = initialMission
         /\ mission'.route = << >>
         /\ activeMissionOrderId' = Null
         /\ aircraft'.status = "Idle"
         /\ aircraft'.payloadWeight = 0
         /\ DOMAIN aircraft' = DOMAIN aircraft
         /\ \A k \in DOMAIN aircraft \ { "status", "payloadWeight" } :
              aircraft'[k] = aircraft[k]]_vars

\* A mission that had ticked was stopped: the mission is the empty default, the
\* battery has drained, no order was delivered and the flown order is Pending.
C4_Witness ==
  /\ activeMissionOrderId = Null
  /\ mission = initialMission
  /\ aircraft.battery < InitialBattery
  /\ aircraft.status = "Idle"
  /\ aircraft.payloadWeight = 0
  /\ \A i \in DOMAIN orders : orders[i].status = "Pending"

\* C5: returnHome during a mission only sets progress to 95: the orders, the
\* aircraft and activeMissionOrderId are as before, so the mission is still
\* active after the call.
C5_ReturnHomeDoesNotComplete ==
  [][(returnHome /\ activeMissionOrderId # Null)
      => /\ mission'.progress = ReturnHomeProgress
         /\ \A k \in DOMAIN mission \ { "progress" } : mission'[k] = mission[k]
         /\ orders' = orders
         /\ aircraft' = aircraft
         /\ activeMissionOrderId' = activeMissionOrderId
         /\ intervalRef' # Null]_vars

\* Right after a returnHome: progress 95 with the mission active.
C5_Witness ==
  /\ activeMissionOrderId # Null
  /\ mission.progress = ReturnHomeProgress
  /\ \E i \in DOMAIN orders : orders[i].status = "In Flight"

\* C6, as claimed: the tick that follows a returnHome (progress 95) completes
\* the mission, marking the active order Delivered and clearing
\* activeMissionOrderId.
C6_NextTickCompletes ==
  [][(TickStep /\ mission.progress = ReturnHomeProgress)
      => /\ activeMissionOrderId' = Null
         /\ OnlyStatusOf(orders, orders', activeMissionOrderId, "Delivered")]_vars

\* C6, amended: the three ticks that follow a returnHome leave the mission active
\* at 96.5, 98 and 99.5; the fourth completes it, marking the active order
\* Delivered and clearing activeMissionOrderId.
C6_FourthTickCompletes ==
  [][TickStep
      => /\ mission.progress \in { ReturnHomeProgress,
                                   ReturnHomeProgress + ProgressIncrement,
                                   ReturnHomeProgress + 2 * ProgressIncrement }
            => /\ mission'.progress = mission.progress + ProgressIncrement
               /\ activeMissionOrderId' = activeMissionOrderId
               /\ activeMissionOrderId' # Null
               /\ orders' = orders
         /\ mission.progress = ReturnHomeProgress + 3 * ProgressIncrement
            => /\ mission'.progress = ProgressMax
               /\ activeMissionOrderId' = Null
               /\ OnlyStatusOf(orders, orders', activeMissionOrderId, "Delivered")]_vars

\* A mission completed after fewer ticks than its progress alone would have
\* needed to pass 95: a returnHome, then the ticks to 100.
C6_Witness ==
  /\ mission.progress = ProgressMax
  /\ activeMissionOrderId = Null
  /\ mission.elapsed * ProgressIncrement < ReturnHomeProgress
  /\ \E i \in DOMAIN orders : orders[i].status = "Delivered"

\* C7: while a mission is active its progress never decreases from one state to
\* the next, whatever tick or command is taken, and never exceeds 100.
C7_ProgressMonotone ==
  /\ [](mission.progress <= ProgressMax)
  /\ [][(activeMissionOrderId # Null /\ activeMissionOrderId' = activeMissionOrderId)
         => mission'.progress >= mission.progress]_vars

\* C8: in every reachable state routeProgress = progress / 100.
C8_RouteProgressInvariant == RouteMirrorsProgress(mission)

\* C9: right after every tick of an active mission, the completion tick
\* included, routeProgress = progress / 100.
C9_RouteProgressAfterTick ==
  [][TickStep => RouteMirrorsProgress(mission')]_vars

\* The tick after a returnHome: progress 96.5 and routeProgress 0.965.
C9_Witness ==
  /\ activeMissionOrderId # Null
  /\ mission.progress = ReturnHomeProgress + ProgressIncrement
  /\ mission.routeProgress * 1000 = 965 * RouteScale

\* C10: rejectOrder(orderId) removes the order with that id and keeps the other
\* orders in their order; with no such order the collection is unchanged.
C10_RejectRemovesById ==
  [][\A orderId \in CommandIds :
       rejectOrder(orderId)
       => LET kept == { i \in DOMAIN orders : orders[i].id # orderId }
              Rank(i) == Cardinality({ j \in kept : j <= i })
          IN /\ Len(orders') = Cardinality(kept)
             /\ \A i \in kept : orders'[Rank(i)] = orders[i]
             /\ \A i \in DOMAIN orders' : orders'[i].id # orderId
             /\ ~Has(orders, orderId) => orders' = orders /\ Len(orders') = Len(orders)
             /\ UNCHANGED << aircraft, mission, activeMissionOrderId >>]_vars

\* The first seeded order was rejected and the later ones moved up.
C10_Witness ==
  /\ Len(orders) >= Len(initialOrders) - 1
  /\ ~Has(orders, "ORD-4821")
  /\ orders[1].id = "ORD-4822"
  /\ orders[Len(initialOrders) - 1].id = "ORD-4826"

\* C11: approveOrder(orderId) sets the status of the order with that id to
\* Approved and changes no other order; with no such order nothing changes; the
\* aircraft, the mission and activeMissionOrderId are as before, also while a
\* mission is active.
C11_ApproveOrderEffect ==
  [][\A orderId \in CommandIds :
       approveOrder(orderId)
       => /\ OnlyStatusOf(orders, orders', orderId, "Approved")
          /\ \A i \in DOMAIN orders' :
               orders'[i].id = orderId => orders'[i].status = "Approved"
          /\ ~Has(orders, orderId) => orders' = orders
          /\ UNCHANGED << aircraft, mission, activeMissionOrderId >>]_vars

\* An order was approved while the mission of another was under way.
C11_Witness ==
  /\ activeMissionOrderId = "ORD-9001"
  /\ mission.progress > 0
  /\ Has(orders, "ORD-4821")
  /\ Find(orders, "ORD-4821").status = "Approved"
  /\ Find(orders, "ORD-9001").status = "In Flight"

\* C12: emergencyStop and returnHome change nothing when no mission is active;
\* so after a completion returnHome leaves progress at 100, and emergencyStop
\* leaves the Delivered order, the aircraft and the retained mission record as
\* they are.
C12_NoMissionNoEffect ==
  /\ [][((emergencyStop \/ returnHome) /\ activeMissionOrderId = Null)
         => UNCHANGED engine]_vars
  /\ [][(returnHome /\ mission.progress = ProgressMax)
         => mission'.progress = ProgressMax]_vars
  /\ [][(emergencyStop /\ activeMissionOrderId = Null)
         => \A i \in DOMAIN orders :
              orders[i].status = "Delivered"
              => i \in DOMAIN orders' /\ orders'[i] = orders[i]]_vars

\* A completed mission, its record retained: where either command is a no-op
\* on a Delivered order and a mission at 100.
C12_Witness ==
  /\ activeMissionOrderId = Null
  /\ mission.progress = ProgressMax
  /\ mission.routeProgress = RouteScale
  /\ Len(mission.route) = NumPoints + 1
  /\ aircraft.status = "Idle"
  /\ aircraft.battery < InitialBattery
  /\ \E i \in DOMAIN orders : orders[i].status = "Delivered"

\* A successful startMission(orderId) step: the guard passes as the handler
\* evaluates it.
StartSucceeds(orderId) == startMission(orderId) /\ ~StartRefused(orderId)

C15_ToggleCameraEffect ==
  /\ [](aircraft.cameraActive \in BOOLEAN)
  /\ [][toggleCamera
         => /\ aircraft'.cameraActive = ~aircraft.cameraActive
            /\ ToggledAircraft(aircraft').cameraActive = aircraft.cameraActive
            /\ DOMAIN aircraft' = DOMAIN aircraft
            /\ \A k \in DOMAIN aircraft \ { "cameraActive" } : aircraft'[k] = aircraft[k]
            /\ UNCHANGED << orders, mission, activeMissionOrderId >>
            /\ intervalRef' = intervalRef]_vars

\* The camera was switched off during a mission that goes on ticking.
C15_Witness ==
  /\ ~aircraft.cameraActive
  /\ activeMissionOrderId # Null
  /\ intervalRef # Null
  /\ aircraft.status = "In Flight"
  /\ mission.progress > 0

\* C17: in every reachable state the payload weight is 0 unless the aircraft
\* status is In Flight.
C17_PayloadOnlyInFlight ==
  aircraft.status # "In Flight" => aircraft.payloadWeight = 0

\* The aircraft is Idle and empty again after it carried ORD-4821 to delivery.
C17_Witness ==
  /\ aircraft.status = "Idle"
  /\ aircraft.payloadWeight = 0
  /\ Has(orders, "ORD-4821")
  /\ Find(orders, "ORD-4821").status = "Delivered"
  /\ ParsedWeight(Find(orders, "ORD-4821").weight) > 0

\* C19: an order leaves the collection only through a rejectOrder applied to it
\* while its status is Pending; an Approved, In Flight or Delivered order is
\* never removed.
C19_OnlyPendingRemoved ==
  [][\A i \in DOMAIN orders :
       ~Has(orders', orders[i].id)
       => /\ rejectOrder(orders[i].id)
          /\ orders[i].status = "Pending"]_vars

\* C20: the status of an order changes only from Pending to Approved by
\* approveOrder, from Approved to In Flight by startMission, from In Flight to
\* Delivered by the completion tick, and from In Flight to Pending by
\* emergencyStop; no step changes it any other way.
C20_StatusTransitions ==
  [][\A i \in DOMAIN orders :
       ( /\ Len(orders') = Len(orders)
         /\ orders'[i].id = orders[i].id
         /\ orders'[i].status # orders[i].status )
       => LET id == orders[i].id
              from == orders[i].status
              to == orders'[i].status
          IN \/ from = "Pending" /\ to = "Approved" /\ approveOrder(id)
             \/ from = "Approved" /\ to = "In Flight" /\ startMission(id)
             \/ from = "In Flight" /\ to = "Delivered" /\ TickStep
             \/ from = "In Flight" /\ to = "Pending" /\ emergencyStop]_vars

\* C14, as claimed: once a mission is started and its ticks keep firing, with no
\* emergencyStop and no rejectOrder, the order eventually is Delivered and
\* activeMissionOrderId is eventually cleared, whatever approveOrder and
\* returnHome calls are interleaved.
C14_MissionEventuallyDelivered ==
  /\ (activeMissionOrderId = "ORD-4821") ~> (activeMissionOrderId = Null)
  /\ (activeMissionOrderId = "ORD-4821")
       ~> (Find(orders, "ORD-4821").status = "Delivered")

\* C18: the battery level is within [0, 100] in every reachable state, never
\* increases across a step taken while a mission is active, and every tick
\* lowers it by the fixed decrement 0.08, floored at 0.
C18_BatteryDrains ==
  /\ [](aircraft.battery >= 0 /\ aircraft.battery <= 100 * BatteryScale)
  /\ [][activeMissionOrderId # Null => aircraft'.battery <= aircraft.battery]_vars
  /\ [][LiveTickStep
         => aircraft'.battery =
              IF aircraft.battery >= BatteryDrain
              THEN aircraft.battery - BatteryDrain ELSE 0]_vars

\* The battery of a mission under way has reached its floor and ticks go on.
C18_Witness ==
  /\ aircraft.battery = 0
  /\ activeMissionOrderId # Null
  /\ intervalRef # Null
  /\ mission.progress > ProgressIncrement

\* C16: at most one mission is active at a time: a startMission issued while a
\* mission is active, a second request issued before the caller has seen the
\* first one's state update included, changes nothing, so in no reachable state
\* do two orders have status In Flight.
C16_SingleMission ==
  Cardinality({ i \in DOMAIN orders : orders[i].status = "In Flight" }) <= 1

\* C21: in every reachable state the mission's route is non-empty only if a
\* mission is active or the last mission ran to completion (progress 100); the
\* route is empty before any mission has started, and an emergencyStop empties
\* it until the next successful startMission.
C21_RouteOnlyOfMission ==
  /\ [](mission.route # << >>
          => (activeMissionOrderId # Null \/ mission.progress = ProgressMax))
  /\ [][(emergencyStop /\ activeMissionOrderId # Null) => mission'.route = << >>]_vars
  /\ [][(mission.route = << >> /\ mission'.route # << >>)
         => \E orderId \in CommandIds : StartSucceeds(orderId)]_vars

\* One mission was flown to completion and a later one stopped: the route that
\* outlived the completion is empty again.
C21_Witness ==
  /\ activeMissionOrderId = Null
  /\ mission.route = << >>
  /\ mission.progress = 0
  /\ \E i \in DOMAIN orders : orders[i].status = "Delivered"
  /\ \E i \in DOMAIN orders : orders[i].status = "Pending" /\ orders[i].id = "ORD-9001"

\* C22: in every reachable state, after any sequence of addOrder, approveOrder,
\* rejectOrder, startMission, emergencyStop, returnHome and ticks, no two orders
\* of the collection have the same id.
C22_UniqueIds ==
  \A i, j \in DOMAIN orders : orders[i].id = orders[j].id => i = j

\* C23: ticks change state only while activeMissionOrderId is set, and the
\* interval is disarmed in step with the end of the mission: after an
\* emergencyStop or the completion tick no tick changes orders, aircraft or
\* mission until a later startMission succeeds.
C23_TicksOnlyWhileActive ==
  /\ [](activeMissionOrderId = Null => intervalRef = Null)
  /\ [][TickStep => activeMissionOrderId # Null]_vars
  /\ [][(activeMissionOrderId = Null /\ engine' # engine)
         => ~TickStep]_vars
  /\ [][(intervalRef = Null /\ intervalRef' # Null)
         => \E orderId \in CommandIds : StartSucceeds(orderId)]_vars

\* A mission was stopped after its first tick: the tick budget is not used up,
\* yet with the interval cleared no tick can follow.
C23_Witness ==
  /\ activeMissionOrderId = Null
  /\ intervalRef = Null
  /\ mission = initialMission
  /\ aircraft.battery = InitialBattery - BatteryDrain
  /\ aircraft.battery > InitialBattery - MaxTicks * BatteryDrain

\* C24: a mission that is started and then only ticks lasts the same number of
\* ticks for every order and route length: its progress after k ticks is
\* 1.5 * k, it is still active after 66 ticks and it completes on the 67th.
C24_SixtySevenTicks ==
  /\ [](activeMissionOrderId # Null
          => /\ mission.progress = mission.elapsed * ProgressIncrement
             /\ mission.elapsed <= 66)
  /\ [][FlightTickStep
         => IF mission.elapsed < 66
            THEN /\ activeMissionOrderId' = activeMissionOrderId
                 /\ mission'.elapsed = mission.elapsed + 1
                 /\ mission'.progress < ProgressMax
            ELSE /\ activeMissionOrderId' = Null
                 /\ mission'.progress = ProgressMax]_vars

\* The order with the longest route was delivered by the tick that followed
\* its 66th.
C24_Witness ==
  /\ activeMissionOrderId = Null
  /\ mission.progress = ProgressMax
  /\ mission.elapsed = 66
  /\ mission.distance = 9434
  /\ Find(orders, "ORD-4824").status = "Delivered"

\* C25: after every non-completing tick the mission's eta is the original total
\* flight time (the distance fixed at startMission divided by the cruise speed
\* of 42 km/h, in seconds) times (1 - newProgress / 100), and is never negative;
\* it does not depend on the jittered speed that earlier ticks left in the
\* mission.
C25_EtaFromCruiseSpeed ==
  [][(TickStep /\ ~TickCompletes(mission))
      => /\ mission'.eta >= 0
         /\ mission'.eta = NewEta(Spread(mission, [speed |-> DroneSpeed]),
                                  NewRouteProgress(NewProgress(mission)))]_vars

\* C26: every tick of an active mission, the completion tick included, advances
\* the mission's elapsed by the same fixed amount, so after the k-th tick of a
\* mission elapsed is k times that amount.
C26_ElapsedAdvancesEveryTick ==
  [][FlightTickStep => mission'.elapsed = mission.elapsed + ElapsedIncrement]_vars

\* C27: a battery level of 0 is neither terminal nor an emergency: with the
\* battery at 0 during a mission every tick still advances the progress, the
\* mission completes with the order Delivered, the battery stays at 0, and a
\* later startMission for an Approved order still succeeds.
C27_EmptyBatteryIsNotTerminal ==
  /\ [][(LiveTickStep /\ aircraft.battery = 0)
         => /\ aircraft'.battery = 0
            /\ IF mission.progress + ProgressIncrement < ProgressMax
               THEN /\ mission'.progress = mission.progress + ProgressIncrement
                    /\ activeMissionOrderId' = activeMissionOrderId
                    /\ aircraft'.status = aircraft.status
                    /\ intervalRef' # Null
               ELSE /\ mission'.progress = ProgressMax
                    /\ activeMissionOrderId' = Null
                    /\ aircraft'.status = "Idle"
                    /\ OnlyStatusOf(orders, orders', activeMissionOrderId,
                                    "Delivered")]_vars
  /\ [][\A orderId \in LiveIds :
          ( /\ startMission(orderId)
            /\ aircraft.battery = 0
            /\ activeMissionOrderId = Null
            /\ Find(orders, orderId).status = "Approved" )
          => /\ activeMissionOrderId' = orderId
             /\ aircraft'.status = "In Flight"
             /\ aircraft'.battery = 0
             /\ Find(orders', orderId).status = "In Flight"]_vars

\* With the battery at 0 an order was delivered, approved again and started.
C27_Witness ==
  /\ aircraft.battery = 0
  /\ activeMissionOrderId = "ORD-4821"
  /\ aircraft.status = "In Flight"
  /\ mission.progress = 0
  /\ mission.elapsed = 0
  /\ Find(orders, "ORD-4821").status = "In Flight"

\* C28: in every reachable state the aircraft status is In Flight exactly when
\* activeMissionOrderId is set and Idle exactly when it is not; the statuses
\* Landing and Charging are never reached.
C28_StatusFollowsActiveMission ==
  /\ aircraft.status = "In Flight" <=> activeMissionOrderId # Null
  /\ aircraft.status = "Idle" <=> activeMissionOrderId = Null
  /\ aircraft.status \notin { "Landing", "Charging" }

\* The aircraft is In Flight on a mission whose order has been rejected in the
\* meantime, the ticks going on.
C28_Witness ==
  /\ aircraft.status = "In Flight"
  /\ activeMissionOrderId = "ORD-4821"
  /\ ~Has(orders, "ORD-4821")
  /\ mission.progress > 0

\* C29: whenever activeMissionOrderId is set, the collection holds an order
\* with that id and its status is In Flight, whatever approveOrder and
\* rejectOrder calls were made since the mission started.
C29_ActiveOrderInFlight ==
  activeMissionOrderId # Null
  => /\ Has(orders, activeMissionOrderId)
     /\ Find(orders, activeMissionOrderId).status = "In Flight"

\* C30: in every reachable state the aircraft's payload weight does not exceed
\* its maximum payload capacity (5.0), whatever orders were added through
\* addOrder and started.
C30_PayloadWithinCapacity ==
  aircraft.payloadWeight <= aircraft.maxPayload

====
